---- MODULE Spec2Model ----
(***************************************************************************)
(* Best-first branch and bound for the 0-1 knapsack problem (src/E10.py).  *)
(* The state is the state of one call of branch_and_bound: its arguments,  *)
(* the priority queue, the popped node, the incumbent and the position in  *)
(* the loop.  Levels are 0-based as in the source; TLA+ sequences are      *)
(* 1-based, so the item decided at level l is values[l + 1].               *)
(* created holds the node the last step built, popped the nodes pq.get has *)
(* returned so far, exception the name of the exception that ended the     *)
(* call, first_result the value an earlier call on the same input returned.*)
(***************************************************************************)
EXTENDS Integers, Sequences, FiniteSets

VARIABLES values, weights, max_weight, pc, pq, current, max_value,
          best_combination, created, popped, exception, first_result

vars == <<values, weights, max_weight, pc, pq, current, max_value,
          best_combination, created, popped, exception, first_result>>

\* ---------------------------------------------------------------- bounds
MaxN == 2
MaxValue == 2
MaxWeight == 2
MaxCapacity == 3

\* ------------------------------------------------- the example of __main__
KnownValues == <<15, 20, 5, 25, 22, 17>>
KnownWeights == <<51, 60, 35, 60, 53, 10>>
KnownCapacity == 150

\* the worked instances of the specification's section 8, and a three-item
\* instance in which nodes of equal bound wait in the queue together
Examples ==
  { [values |-> <<>>, weights |-> <<>>, max_weight |-> 10],
    [values |-> <<5>>, weights |-> <<3>>, max_weight |-> 10],
    [values |-> <<5>>, weights |-> <<30>>, max_weight |-> 10],
    [values |-> <<1, 2, 2>>, weights |-> <<1, 2, 1>>, max_weight |-> 2] }

\* ------------------------------------------------------------- arithmetic
\* calculate_bound returns an int or a float: base + k * (v / w).  It is
\* kept exact, as the fraction num / den with den > 0.
Rat(n, d) == IF d < 0 THEN [num |-> -n, den |-> -d] ELSE [num |-> n, den |-> d]
FromInt(i) == Rat(i, 1)
RatGT(a, b) == a.num * b.den > b.num * a.den
RatGE(a, b) == a.num * b.den >= b.num * a.den

\* best_combination is None or a list
None == [present |-> FALSE, taken |-> <<>>]
Some(t) == [present |-> TRUE, taken |-> t]

\* ------------------------------------------------------------------ Node
Node(level, value, weight, bound, taken) ==
  [level |-> level, value |-> value, weight |-> weight, bound |-> bound,
   taken |-> taken]

\* Node.__lt__: a is ordered before b when its bound is larger
NodeLT(a, b) == RatGT(a.bound, b.bound)

\* ------------------------------------------------------- calculate_bound
Ok(b) == [err |-> "ok", bound |-> b]
Raise(e) == [err |-> e, bound |-> FromInt(0)]

\* line 34 with the fractional value left out
FractionalDropped(bound, total_weight, level, mw, vals, wts) ==
  Ok(FromInt(bound))

\* the fractional value of the first project that does not fit (line 34)
Fractional(bound, total_weight, level, mw, vals, wts) ==
  IF wts[level + 1] = 0
  THEN Raise("ZeroDivisionError")
  ELSE Ok(Rat(bound * wts[level + 1]
                + (mw - total_weight) * vals[level + 1],
              wts[level + 1]))

\* the while loop of lines 27-30 followed by the if of lines 33-34
RECURSIVE GreedyFill(_, _, _, _, _, _, _)
GreedyFill(level, total_weight, bound, n, mw, vals, wts) ==
  IF level < n
  THEN IF level + 1 > Len(wts)
       THEN Raise("IndexError")
       ELSE IF total_weight + wts[level + 1] <= mw
            THEN GreedyFill(level + 1, total_weight + wts[level + 1],
                            bound + vals[level + 1], n, mw, vals, wts)
            ELSE Fractional(bound, total_weight, level, mw, vals, wts)
  ELSE Ok(FromInt(bound))

\* calculate_bound with == in place of >= in line 19
calculate_boundEqualGuard(node, n, mw, vals, wts) ==
  IF node.weight = mw
  THEN Ok(FromInt(0))
  ELSE GreedyFill(node.level + 1, node.weight, node.value, n, mw, vals, wts)

\* calculate_bound without the early return of lines 19-20
calculate_boundNoGuard(node, n, mw, vals, wts) ==
  GreedyFill(node.level + 1, node.weight, node.value, n, mw, vals, wts)

calculate_bound(node, n, mw, vals, wts) ==
  IF node.weight >= mw
  THEN Ok(FromInt(0))
  ELSE GreedyFill(node.level + 1, node.weight, node.value, n, mw, vals, wts)

\* ------------------------------------------------------ branch_and_bound
n == Len(values)

Unbound == Node(-1, 0, 0, FromInt(0), <<>>)

WithBound(node, b) == [node EXCEPT !.bound = b]

\* line 69 without the test of the weight
ImprovesAnyWeight(node) == node.value > max_value

\* line 69 with >= in place of >
ImprovesOrEqual(node) == node.weight <= max_weight /\ node.value >= max_value

\* line 69 without the test of the value
ImprovesAnyValue(node) == node.weight <= max_weight

\* line 69: the taken node replaces the incumbent
Improves(node) == node.weight <= max_weight /\ node.value > max_value

\* lines 61-67 with the decision recorded as 0
TakenNodeMarkedZero(cur, level) ==
  Node(level, cur.value + values[level + 1], cur.weight + weights[level + 1],
       FromInt(0), Append(cur.taken, 0))

\* lines 61-67
TakenNode(cur, level) ==
  Node(level, cur.value + values[level + 1], cur.weight + weights[level + 1],
       FromInt(0), Append(cur.taken, 1))

\* lines 79-85 with the parent's list passed on as it is
NotTakenNodeSameList(cur, level) ==
  Node(level, cur.value, cur.weight, FromInt(0), cur.taken)

\* lines 79-85
NotTakenNode(cur, level) ==
  Node(level, cur.value, cur.weight, FromInt(0), Append(cur.taken, 0))

\* PriorityQueue.get on a queue that ignores the order of the nodes
IsAny(node, q) == node \in q

\* PriorityQueue.get: a node no other node is ordered before
IsFirst(node, q) == node \in q /\ \A other \in q : ~NodeLT(other, node)

\* PriorityQueue.get leaving the node in the queue
RemoveNothing(q, node) == q

\* PriorityQueue.get takes the node out of the queue
Remove(q, node) == q \ {node}

\* line 56 with >= in place of >
PromisingOrEqual(node) == RatGE(node.bound, FromInt(max_value))

\* line 56: only nodes with promising bounds are explored
Promising(node) == RatGT(node.bound, FromInt(max_value))

\* lines 75 and 88 with >= in place of >
WorthOrEqual(node, mv) == RatGE(node.bound, FromInt(mv))

\* lines 75 and 88: a child is queued when its bound beats the incumbent mv
Worth(node, mv) == RatGT(node.bound, FromInt(mv))

\* ----------------------------------------------------------------- inputs
BoundedSeq(S, k) == UNION {[1..i -> S] : i \in 0..k}

Init ==
  /\ \/ /\ values \in BoundedSeq(0..MaxValue, MaxN)
        /\ weights \in BoundedSeq(0..MaxWeight, MaxN)
        /\ max_weight \in 0..MaxCapacity
     \/ /\ values = KnownValues
        /\ weights = KnownWeights
        /\ max_weight = KnownCapacity
     \/ \E e \in Examples :
          /\ values = e.values
          /\ weights = e.weights
          /\ max_weight = e.max_weight
  /\ pc = "start"
  /\ pq = {}
  /\ current = Unbound
  /\ max_value = 0
  /\ best_combination = None
  /\ created = {}
  /\ popped = {}
  /\ exception = ""
  /\ first_result = {}

\* lines 41-50: the root is created, bounded and put in the queue
Start ==
  /\ pc = "start"
  /\ LET root == Node(-1, 0, 0, FromInt(0), <<>>)
         r == calculate_bound(root, n, max_weight, values, weights)
     IN IF r.err # "ok"
        THEN /\ pc' = "error"
             /\ exception' = r.err
             /\ UNCHANGED <<pq, created>>
        ELSE /\ pq' = {WithBound(root, r.bound)}
             /\ created' = {WithBound(root, r.bound)}
             /\ pc' = "loop"
             /\ UNCHANGED exception
  /\ max_value' = 0
  /\ best_combination' = None
  /\ UNCHANGED <<values, weights, max_weight, current, popped, first_result>>

\* lines 52-56, bound > max_value: the popped node is going to be branched
Expand ==
  /\ pc = "loop"
  /\ \E node \in pq :
       /\ IsFirst(node, pq)
       /\ Promising(node)
       /\ pq' = Remove(pq, node)
       /\ current' = node
       /\ popped' = popped \cup {node}
  /\ pc' = "take"
  /\ created' = {}
  /\ UNCHANGED <<values, weights, max_weight, max_value, best_combination,
                 exception, first_result>>

\* lines 52-56, bound <= max_value: the popped node is dropped
Prune ==
  /\ pc = "loop"
  /\ \E node \in pq :
       /\ IsFirst(node, pq)
       /\ ~Promising(node)
       /\ pq' = Remove(pq, node)
       /\ current' = node
       /\ popped' = popped \cup {node}
  /\ pc' = "loop"
  /\ created' = {}
  /\ UNCHANGED <<values, weights, max_weight, max_value, best_combination,
                 exception, first_result>>

\* lines 57-76: branch for taking the current project
Take ==
  /\ pc = "take"
  /\ LET level == current.level + 1
     IN IF level < n
        THEN IF level + 1 > Len(weights)
             THEN /\ pc' = "error"
                  /\ exception' = "IndexError"
                  /\ UNCHANGED <<pq, max_value, best_combination, created>>
             ELSE LET t == TakenNode(current, level)
                      better == Improves(t)
                      mv == IF better THEN t.value ELSE max_value
                      r == calculate_bound(t, n, max_weight, values, weights)
                      taken_node == WithBound(t, r.bound)
                  IN /\ max_value' = mv
                     /\ best_combination' =
                          IF better THEN Some(t.taken) ELSE best_combination
                     /\ IF r.err # "ok"
                        THEN /\ pc' = "error"
                             /\ exception' = r.err
                             /\ UNCHANGED <<pq, created>>
                        ELSE /\ created' = {taken_node}
                             /\ pq' = IF Worth(taken_node, mv)
                                      THEN pq \cup {taken_node}
                                      ELSE pq
                             /\ pc' = "skip"
                             /\ UNCHANGED exception
        ELSE /\ pc' = "skip"
             /\ created' = {}
             /\ UNCHANGED <<pq, max_value, best_combination, exception>>
  /\ UNCHANGED <<values, weights, max_weight, current, popped, first_result>>

\* lines 78-89: branch for not taking the current project
NotTake ==
  /\ pc = "skip"
  /\ LET level == current.level + 1
         t == NotTakenNode(current, level)
         r == calculate_bound(t, n, max_weight, values, weights)
         not_taken_node == WithBound(t, r.bound)
     IN IF r.err # "ok"
        THEN /\ pc' = "error"
             /\ exception' = r.err
             /\ UNCHANGED <<pq, created>>
        ELSE /\ created' = {not_taken_node}
             /\ pq' = IF Worth(not_taken_node, max_value)
                      THEN pq \cup {not_taken_node}
                      ELSE pq
             /\ pc' = "loop"
             /\ UNCHANGED exception
  /\ UNCHANGED <<values, weights, max_weight, current, max_value,
                 best_combination, popped, first_result>>

\* lines 52 and 91: the queue is empty, (max_value, best_combination) is
\* returned
Return ==
  /\ pc = "loop"
  /\ pq = {}
  /\ pc' = "done"
  /\ created' = {}
  /\ UNCHANGED <<values, weights, max_weight, pq, current, max_value,
                 best_combination, popped, exception, first_result>>

Next == Start \/ Expand \/ Prune \/ Take \/ NotTake \/ Return

Spec == Init /\ [][Next]_vars

\* branch_and_bound is called a second time with the same arguments; the
\* value the first call returned is kept for comparison
Rerun ==
  /\ pc = "done"
  /\ first_result = {}
  /\ first_result' = {max_value}
  /\ pc' = "start"
  /\ pq' = {}
  /\ current' = Unbound
  /\ max_value' = 0
  /\ best_combination' = None
  /\ created' = {}
  /\ popped' = {}
  /\ UNCHANGED <<values, weights, max_weight, exception>>

NextTie == Next \/ Rerun

SpecTie == Init /\ [][NextTie]_vars

\* the call is one synchronous flow of control: while a step is possible the
\* next step is taken
SpecFair == Init /\ [][Next]_vars /\ WF_vars(Next)

\* ============================================================ properties
\* the arguments the specification calls valid
ValidInput ==
  /\ Len(values) = Len(weights)
  /\ \A i \in DOMAIN values : values[i] >= 0
  /\ \A i \in DOMAIN weights : weights[i] > 0
  /\ max_weight >= 0

RECURSIVE SumOf(_, _)
SumOf(xs, S) ==
  IF S = {} THEN 0
  ELSE LET i == CHOOSE j \in S : TRUE IN xs[i] + SumOf(xs, S \ {i})

\* the items a selection marks 1
Marked(sel) == {i \in DOMAIN sel : sel[i] = 1}

Max(S) == CHOOSE x \in S : \A y \in S : y <= x

\* exhaustive enumeration: the best value of a subset of the items that fits
BruteForce ==
  Max({SumOf(values, S) :
         S \in {T \in SUBSET (1..n) : SumOf(weights, T) <= max_weight}})

\* the decisions still open below a node, and the values of its feasible
\* completions
Remaining(node) == (node.level + 2)..n
Completions(node) ==
  {node.value + SumOf(values, S) :
     S \in {T \in SUBSET Remaining(node) :
              node.weight + SumOf(weights, T) <= max_weight}}

\* C1: when branch_and_bound returns on valid input, the value it returns is
\* the maximum total value over all subsets of items whose total weight is
\* at most the capacity.
Optimality ==
  (pc = "done" /\ ValidInput) => max_value = BruteForce

\* C2: on valid input the bound of every node just produced (root, include
\* child, exclude child) is at least the value of every feasible completion
\* of that node.
BoundSoundness ==
  ValidInput =>
    \A node \in created :
      \A v \in Completions(node) : RatGE(node.bound, FromInt(v))

\* C3: the weights of the items marked 1 in the incumbent selection never
\* add up to more than the capacity.
Feasibility ==
  /\ Marked(best_combination.taken) \subseteq DOMAIN weights
  /\ SumOf(weights, Marked(best_combination.taken)) <= max_weight

\* an include child that is worth more than the incumbent but is too heavy
\* has just been built, and an incumbent exists
FeasibilityWitness ==
  /\ pc = "skip"
  /\ best_combination.present
  /\ \E node \in created :
       node.weight > max_weight /\ node.value > max_value

\* C4: the values of the items marked 1 in the incumbent selection add up
\* to max_value (no item is marked while there is no incumbent).
SelectionConsistency ==
  /\ Marked(best_combination.taken) \subseteq DOMAIN values
  /\ SumOf(values, Marked(best_combination.taken)) = max_value

\* the search returned a selection of two or more items, after having
\* replaced an earlier incumbent
SelectionConsistencyWitness ==
  /\ pc = "done"
  /\ best_combination.present
  /\ Cardinality(Marked(best_combination.taken)) >= 2
  /\ \E i \in DOMAIN best_combination.taken : best_combination.taken[i] = 0

\* C5: the selection returned on valid input is a sequence of 0/1 entries
\* with one entry per item.
OutputShape ==
  (pc = "done" /\ ValidInput) =>
    /\ best_combination.present
    /\ Len(best_combination.taken) = n
    /\ \A i \in DOMAIN best_combination.taken :
         best_combination.taken[i] \in {0, 1}

\* C6: with no items the search returns the value 0 together with the empty
\* selection.
EmptyInput ==
  (pc = "done" /\ values = <<>> /\ weights = <<>> /\ max_weight >= 0) =>
    max_value = 0 /\ best_combination = Some(<<>>)

\* C7: for a single item heavier than the capacity the search returns the
\* value 0 and the selection [0].
SingleItemDoesNotFit ==
  (pc = "done" /\ ValidInput /\ n = 1 /\ weights[1] > max_weight) =>
    max_value = 0 /\ best_combination = Some(<<0>>)

IsKnown ==
  values = KnownValues /\ weights = KnownWeights /\ max_weight = KnownCapacity

\* C8: on the example of __main__ the value returned is the brute-force
\* optimum and the selection returned is a feasible subset of that value.
KnownExample ==
  (pc = "done" /\ IsKnown) =>
    /\ max_value = BruteForce
    /\ best_combination.present
    /\ Marked(best_combination.taken) \subseteq 1..n
    /\ SumOf(weights, Marked(best_combination.taken)) <= max_weight
    /\ SumOf(values, Marked(best_combination.taken)) = max_value

\* the example has been solved
KnownExampleWitness ==
  pc = "done" /\ IsKnown /\ max_value = BruteForce /\ max_value > 0

\* C9: two calls on the same valid input return the same value, whichever
\* nodes were popped among those of equal bound.
TieBreakIndependence ==
  (pc = "done" /\ ValidInput) => \A v \in first_result : max_value = v

\* C10: with sequences of different lengths the call ends in an error
\* before the root is inserted: nothing is queued, popped, created or
\* returned.
InvalidShapeFailsFast ==
  Len(values) # Len(weights) =>
    /\ pc \in {"start", "error"}
    /\ pq = {}
    /\ created = {}

\* C11: when some item has a weight <= 0 the call ends in an error and
\* never returns a (best_value, best_selection) result.
NonPositiveWeightFails ==
  (Len(values) = Len(weights) /\ \E i \in DOMAIN weights : weights[i] <= 0)
    => pc # "done"

\* C12: max_value starts at 0 and no step of the search (pop, include
\* branch, exclude branch, return) ever lowers it; only the include branch
\* changes it.
MonotonicIncumbent ==
  /\ max_value = 0
  /\ [][/\ max_value' >= max_value
        /\ max_value' # max_value => pc = "take"]_vars

\* a feasible include child worth less than the incumbent has just been
\* built, and the incumbent is still there
MonotonicIncumbentWitness ==
  /\ pc = "skip"
  /\ max_value > 0
  /\ \E node \in created :
       node.weight <= max_weight /\ node.value < max_value

\* C13: every node held in the queue has a weight <= max_weight, and an
\* include child that is heavier than max_weight is not in the queue.
FrontierFeasibility ==
  /\ \A node \in pq : node.weight <= max_weight
  /\ \A node \in created : node.weight > max_weight => node \notin pq

\* an include child heavier than max_weight has just been bounded to 0 and
\* left out while other nodes wait in the queue
FrontierFeasibilityWitness ==
  /\ pc = "skip"
  /\ pq # {}
  /\ \E node \in created :
       /\ node.weight > max_weight
       /\ node.bound = FromInt(0)
       /\ node.value > 0
       /\ node \notin pq

\* C14: on valid input the search reaches an empty queue and returns; a
\* node is popped at most once, a node built by a branch was never in the
\* queue or popped before, and it is one level deeper than the popped node.
Termination ==
  /\ ValidInput => <>(pc = "done" /\ pq = {})
  /\ [][/\ popped' # popped => current' \notin popped
        /\ (pc \in {"take", "skip"} /\ pc' # "error") =>
             \A node \in created' :
               /\ node \notin pq
               /\ node \notin popped
               /\ node.level = current.level + 1]_vars

\* a search on valid input has returned after popping five or more nodes
TerminationWitness ==
  /\ pc = "done"
  /\ ValidInput
  /\ pq = {}
  /\ Cardinality(popped) >= 5

\* C15: whenever a node is popped, its bound is >= the bound of every node
\* that stays in the queue.
BestFirstOrder ==
  [][popped' # popped =>
       /\ current' \in pq
       /\ \A other \in pq' : RatGE(current'.bound, other.bound)]_vars

\* a node has just been popped ahead of two or more waiting nodes, one of
\* them with a strictly smaller bound
BestFirstOrderWitness ==
  /\ pc = "take"
  /\ Cardinality(pq) >= 2
  /\ \E other \in pq : RatGT(current.bound, other.bound)

\* C16: a step that pops a node whose bound is <= max_value only takes that
\* node out of the queue: it builds and queues no child, leaves max_value
\* and best_combination alone and goes back to the head of the loop.
PruneStep ==
  [][(popped' # popped /\ ~RatGT(current'.bound, FromInt(max_value))) =>
       /\ pq' = pq \ {current'}
       /\ created' = {}
       /\ max_value' = max_value
       /\ best_combination' = best_combination
       /\ pc' = "loop"]_vars

\* a node whose bound does not beat an existing incumbent has just been
\* popped and dropped
PruneStepWitness ==
  /\ pc = "loop"
  /\ created = {}
  /\ current \in popped
  /\ current.level >= 0
  /\ ~RatGT(current.bound, FromInt(max_value))
  /\ best_combination.present

\* C17: every node built, queued or popped (the root included) has
\* len(taken) = level + 1 with entries 0 or 1; the include child's list is
\* the popped node's list with 1 appended, the exclude child's list is it
\* with 0 appended, and the popped node itself is left as it was.
DecisionHistory ==
  /\ [](\A node \in created \cup pq \cup popped :
          /\ Len(node.taken) = node.level + 1
          /\ \A i \in DOMAIN node.taken : node.taken[i] \in {0, 1})
  /\ [][/\ (pc = "take" /\ pc' = "skip") =>
             /\ current' = current
             /\ \A node \in created' : node.taken = Append(current.taken, 1)
        /\ (pc = "skip" /\ pc' = "loop") =>
             /\ current' = current
             /\ \A node \in created' : node.taken = Append(current.taken, 0)
       ]_vars

\* an exclude child has just been built two or more levels down, after the
\* include child of the same parent
DecisionHistoryWitness ==
  /\ pc = "loop"
  /\ \E node \in created :
       /\ node.level >= 1
       /\ node.taken = Append(current.taken, 0)
       /\ Len(current.taken) = node.level

\* C18: with non-negative weights and capacity (zero weights included) no
\* call of calculate_bound raises ZeroDivisionError.
NoZeroDivision ==
  ((\A i \in DOMAIN weights : weights[i] >= 0) /\ max_weight >= 0) =>
    exception # "ZeroDivisionError"

\* calculate_bound has just returned for an include child heavier than
\* max_weight whose next item has weight 0
NoZeroDivisionWitness ==
  /\ pc = "skip"
  /\ exception = ""
  /\ \E node \in created :
       /\ node.weight > max_weight
       /\ node.level + 1 < n
       /\ node.level + 2 \in DOMAIN weights
       /\ weights[node.level + 2] = 0

\* C19: every queued node has value <= max_value; no queued node decides
\* the last item; a node that is being branched has level + 1 < n; and no
\* node with level >= n is ever built.
NoNodePastLastItem ==
  /\ \A node \in pq : node.value <= max_value
  /\ \A node \in pq : node.level >= 0 => node.level < n - 1
  /\ pc \in {"take", "skip"} => current.level + 1 < n
  /\ \A node \in created \cup pq \cup popped : node.level < n

\* an exclude child deciding the last item has just been built with a bound
\* equal to a positive max_value, and was not queued
NoNodePastLastItemWitness ==
  /\ pc = "loop"
  /\ max_value > 0
  /\ \E node \in created :
       /\ node.level = n - 1
       /\ node.bound = FromInt(max_value)
       /\ node.value = max_value
       /\ node \notin pq

\* C20: best_combination is None exactly when max_value is 0, and when it
\* is a list it is the list of an include child: its last entry is 1.
IncumbentPresence ==
  /\ best_combination = None <=> max_value = 0
  /\ best_combination.present =>
       /\ Len(best_combination.taken) >= 1
       /\ best_combination.taken[Len(best_combination.taken)] = 1

\* an include child that fits but is worth 0 has just been built and has
\* not become the incumbent
IncumbentPresenceWitness ==
  /\ pc = "skip"
  /\ best_combination = None
  /\ max_value = 0
  /\ \E node \in created : node.weight <= max_weight /\ node.value = 0

====
